---------------------------- MODULE Spec2Model ----------------------------
(***************************************************************************)
(* A model of pychip8: the Chip-8 machine state (chip8.py), its 35         *)
(* instructions (instructions.py), the fetch-decode-execute step           *)
(* chip8.tick and the driving loop pychip8.run (__init__.py).              *)
(*                                                                         *)
(* Python semantics that the code relies on are kept: integers are         *)
(* unbounded, a list index i of a list of length n is valid for            *)
(* -n <= i < n (a negative index counts from the end), anything else       *)
(* raises IndexError, and an exception raised inside tick is caught        *)
(* nowhere, so it ends run.                                                *)
(***************************************************************************)
EXTENDS Integers, Sequences, FiniteSets, TLC

\* ------------------------------------------------------------------------
\* Program constants
\* ------------------------------------------------------------------------
RamSize == 4096
StackSize == 16
NumRegs == 16
NumKeys == 16
DisplayWidth == 64
DisplayHeight == 32
RomBase == 512
TicksPerCycle == 5

\* Bounds of the model
MaxQueue == 1

\* ------------------------------------------------------------------------
\* Python integer and list primitives
\* ------------------------------------------------------------------------
RECURSIVE BitAnd(_, _)
BitAnd(a, b) ==
    IF a = 0 \/ b = 0 THEN 0
    ELSE (IF a % 2 = 1 /\ b % 2 = 1 THEN 1 ELSE 0) + 2 * BitAnd(a \div 2, b \div 2)

RECURSIVE BitOr(_, _)
BitOr(a, b) ==
    IF a = 0 THEN b
    ELSE IF b = 0 THEN a
    ELSE (IF a % 2 = 1 \/ b % 2 = 1 THEN 1 ELSE 0) + 2 * BitOr(a \div 2, b \div 2)

RECURSIVE BitXor(_, _)
BitXor(a, b) ==
    IF a = 0 THEN b
    ELSE IF b = 0 THEN a
    ELSE (IF a % 2 # b % 2 THEN 1 ELSE 0) + 2 * BitXor(a \div 2, b \div 2)

\* x & 0xFF of a Python int of either sign (two's complement of unbounded width)
Mask8(a) == a % 256

\* x & 0xFFF
Mask12(a) == a % 4096

\* list[idx] is defined
PyValid(idx, len) == idx >= -len /\ idx < len

\* the cell list[idx] names
PyIdx(idx, len) == IF idx < 0 THEN idx + len ELSE idx

\* ------------------------------------------------------------------------
\* chip8.py: the data model
\* ------------------------------------------------------------------------
hexadecimal_sprites ==
    << 240, 144, 144, 144, 240,
       32, 96, 32, 32, 112,
       240, 16, 240, 128, 240,
       240, 16, 240, 16, 240,
       144, 144, 240, 16, 16,
       240, 128, 240, 16, 240,
       240, 128, 240, 144, 240,
       240, 16, 32, 64, 64,
       240, 144, 240, 144, 240,
       240, 144, 240, 16, 240,
       240, 144, 240, 144, 144,
       224, 144, 224, 144, 224,
       240, 128, 128, 128, 240,
       224, 144, 144, 144, 224,
       240, 128, 240, 128, 240,
       240, 128, 240, 128, 128 >>

\* Keyboard.key_mapper: host key code -> logical key
key_mapper ==
    (49 :> 1) @@ (50 :> 2) @@ (51 :> 3) @@ (52 :> 12) @@
    (113 :> 4) @@ (119 :> 5) @@ (101 :> 6) @@ (114 :> 13) @@
    (97 :> 7) @@ (115 :> 8) @@ (100 :> 9) @@ (102 :> 14) @@
    (122 :> 10) @@ (120 :> 0) @@ (99 :> 11) @@ (118 :> 15)

\* Memory.__post_init__: RAM is zero except the glyph table at 0x000..0x04F
InitRam ==
    [a \in 0..(RamSize - 1) |->
        IF a < Len(hexadecimal_sprites) THEN hexadecimal_sprites[a + 1] ELSE 0]

\* Chip8(): the machine after construction, with pygame's empty event queue.
\* err is the uncaught exception ("none" while there is none), acc the RAM
\* indices the current step has used, blocked/bx the pending ld_kp.
Chip8 ==
    [ v |-> [r \in 0..(NumRegs - 1) |-> 0],
      i |-> 0, pc |-> RomBase, sp |-> 0, dt |-> 0, st |-> 0,
      stack |-> [s \in 0..(StackSize - 1) |-> 0],
      ram |-> InitRam,
      display |-> [p \in 0..(DisplayWidth * DisplayHeight - 1) |-> 0],
      pressed_keys |-> [q \in 0..(NumKeys - 1) |-> FALSE],
      beep |-> FALSE,
      queue |-> << >>,
      err |-> "none", acc |-> {}, blocked |-> FALSE, bx |-> 0 ]

Raise(m, e) == IF m.err = "none" THEN [m EXCEPT !.err = e] ELSE m

\* ram[a] is read: the index is used, and IndexError is raised if it is no cell
RamTouch(m, a) ==
    IF m.err # "none" THEN m
    ELSE IF PyValid(a, RamSize) THEN [m EXCEPT !.acc = @ \cup {a}]
    ELSE [m EXCEPT !.acc = @ \cup {a}, !.err = "IndexError"]

RamGet(m, a) == m.ram[PyIdx(a, RamSize)]

\* ram[a] = val
RamSet(m, a, val) ==
    IF m.err # "none" THEN m
    ELSE IF PyValid(a, RamSize)
         THEN [m EXCEPT !.acc = @ \cup {a}, !.ram[PyIdx(a, RamSize)] = val]
         ELSE [m EXCEPT !.acc = @ \cup {a}, !.err = "IndexError"]

\* Memory.load_rom: byte i of the file goes to ram[0x200 + i]. The loop over
\* the bytes lo..hi of the file (counted from 1), in file order and up to the
\* first exception; the range is halved to keep the evaluation shallow.
RECURSIVE load_rom_from(_, _, _, _)
load_rom_from(m, rom, lo, hi) ==
    IF lo > hi \/ m.err # "none" THEN m
    ELSE IF lo = hi THEN RamSet(m, RomBase + (lo - 1), rom[lo])
    ELSE LET mid == (lo + hi) \div 2
         IN load_rom_from(load_rom_from(m, rom, lo, mid), rom, mid + 1, hi)

\* a plausible slip: the copy starts at the second byte of the file
load_rom_skip_first(m, rom) == load_rom_from(m, rom, 2, Len(rom))

load_rom(m, rom) == load_rom_from(m, rom, 1, Len(rom))

\* Keyboard.set_key: an unmapped key raises KeyError, which is caught
set_key(m, key, value) ==
    IF key \in DOMAIN key_mapper
    THEN [m EXCEPT !.pressed_keys[key_mapper[key]] = value]
    ELSE m

\* Keyboard.is_pressed: pressed_keys[key]
is_pressed_ok(m, key) == PyValid(key, NumKeys)

is_pressed(m, key) == m.pressed_keys[PyIdx(key, NumKeys)]

\* ------------------------------------------------------------------------
\* instructions.py
\* ------------------------------------------------------------------------
cls(m) == [m EXCEPT !.display = [p \in 0..(DisplayWidth * DisplayHeight - 1) |-> 0]]

\* a plausible slip: the stack pointer is advanced before the slot is written
call_inc_first(m, addr) ==
    IF PyValid(m.sp + 1, StackSize)
    THEN [m EXCEPT !.stack[PyIdx(m.sp + 1, StackSize)] = m.pc, !.sp = m.sp + 1, !.pc = addr]
    ELSE Raise([m EXCEPT !.sp = m.sp + 1], "IndexError")

call(m, addr) ==
    IF PyValid(m.sp, StackSize)
    THEN [m EXCEPT !.stack[PyIdx(m.sp, StackSize)] = m.pc, !.sp = m.sp + 1, !.pc = addr]
    ELSE Raise(m, "IndexError")

ret(m) ==
    LET m1 == [m EXCEPT !.sp = m.sp - 1]
    IN IF PyValid(m1.sp, StackSize)
       THEN [m1 EXCEPT !.pc = m1.stack[PyIdx(m1.sp, StackSize)]]
       ELSE Raise(m1, "IndexError")

jump(m, addr) == [m EXCEPT !.pc = addr]

branch(m, addr) == [m EXCEPT !.pc = addr + m.v[0]]

se_byte(m, x, byte) == IF m.v[x] = byte THEN [m EXCEPT !.pc = @ + 2] ELSE m

sne_byte(m, x, byte) == IF m.v[x] # byte THEN [m EXCEPT !.pc = @ + 2] ELSE m

se(m, x, y) == IF m.v[x] = m.v[y] THEN [m EXCEPT !.pc = @ + 2] ELSE m

sne(m, x, y) == IF m.v[x] # m.v[y] THEN [m EXCEPT !.pc = @ + 2] ELSE m

ld_byte(m, x, byte) == [m EXCEPT !.v[x] = byte]

ldi(m, addr) == [m EXCEPT !.i = addr]

ld_sprite(m, x) == [m EXCEPT !.i = 5 * m.v[x]]

ld(m, x, y) == [m EXCEPT !.v[x] = m.v[y]]

ld_dt(m, x) == [m EXCEPT !.v[x] = m.dt]

set_dt(m, x) == [m EXCEPT !.dt = m.v[x]]

set_st(m, x) == [m EXCEPT !.st = m.v[x]]

store_bcd(m, x) ==
    LET number == m.v[x]
        hundreds == number \div 100
        tens == (number % 100) \div 10
        ones == number % 10
        m1 == RamSet(m, m.i, hundreds)
        m2 == RamSet(m1, m.i + 1, tens)
    IN RamSet(m2, m.i + 2, ones)

RECURSIVE store_v_from(_, _, _)
store_v_from(m, x, reg_i) ==
    IF reg_i > x \/ m.err # "none" THEN m
    ELSE store_v_from(RamSet(m, m.i + reg_i, m.v[reg_i]), x, reg_i + 1)

store_v(m, x) == store_v_from(m, x, 0)

RECURSIVE ld_v_from(_, _, _)
ld_v_from(m, x, reg_i) ==
    IF reg_i > x \/ m.err # "none" THEN m
    ELSE LET m1 == RamTouch(m, m.i + reg_i)
         IN IF m1.err # "none" THEN m1
            ELSE ld_v_from([m1 EXCEPT !.v[reg_i] = RamGet(m, m.i + reg_i)], x, reg_i + 1)

ld_v(m, x) == ld_v_from(m, x, 0)

\* a plausible slip: ADD Vx,kk reports its carry in VF, as ADD Vx,Vy does
add_byte_carry(m, x, byte) ==
    LET m1 == [m EXCEPT !.v[15] = IF m.v[x] + byte > 255 THEN 1 ELSE 0]
    IN [m1 EXCEPT !.v[x] = Mask8(m.v[x] + byte)]

add_byte(m, x, byte) ==
    LET m1 == [m EXCEPT !.v[x] = @ + byte]
    IN [m1 EXCEPT !.v[x] = Mask8(@)]

addi(m, x) ==
    LET m1 == [m EXCEPT !.i = @ + m.v[x]]
    IN [m1 EXCEPT !.i = Mask12(@)]

or_(m, x, y) == [m EXCEPT !.v[x] = BitOr(@, m.v[y])]

and_(m, x, y) == [m EXCEPT !.v[x] = BitAnd(@, m.v[y])]

xor_(m, x, y) == [m EXCEPT !.v[x] = BitXor(@, m.v[y])]

\* the flag test reads the sum already in Vx, masked: (v[x] & 0xFF) > 0
add(m, x, y) ==
    LET m1 == [m EXCEPT !.v[x] = @ + m.v[y]]
        m2 == [m1 EXCEPT !.v[15] = IF Mask8(m1.v[x]) > 0 THEN 1 ELSE 0]
    IN [m2 EXCEPT !.v[x] = Mask8(@)]

\* a plausible slip: the difference is stored as computed, not cut to 8 bits
sub_unmasked(m, x, y) ==
    LET m1 == [m EXCEPT !.v[15] = IF m.v[x] > m.v[y] THEN 1 ELSE 0]
    IN [m1 EXCEPT !.v[x] = @ - m1.v[y]]

sub(m, x, y) ==
    LET m1 == [m EXCEPT !.v[15] = IF m.v[x] > m.v[y] THEN 1 ELSE 0]
        m2 == [m1 EXCEPT !.v[x] = @ - m1.v[y]]
    IN [m2 EXCEPT !.v[x] = Mask8(@)]

subn(m, x, y) ==
    LET m1 == [m EXCEPT !.v[15] = IF m.v[y] > m.v[x] THEN 1 ELSE 0]
        m2 == [m1 EXCEPT !.v[x] = m1.v[y] - m1.v[x]]
    IN [m2 EXCEPT !.v[x] = Mask8(@)]

shr(m, x, y) ==
    LET m1 == [m EXCEPT !.v[15] = BitAnd(m.v[x], 1)]
        m2 == [m1 EXCEPT !.v[x] = @ \div 2]
    IN [m2 EXCEPT !.v[x] = Mask8(@)]

\* a plausible slip: the flag is read after the shift, from the shifted value
shl_flag_after(m, x, y) ==
    LET m1 == [m EXCEPT !.v[x] = Mask8(@ * 2)]
    IN [m1 EXCEPT !.v[15] = BitAnd(m1.v[x], 128) \div 128]

shl(m, x, y) ==
    LET m1 == [m EXCEPT !.v[15] = BitAnd(m.v[x], 128) \div 128]
        m2 == [m1 EXCEPT !.v[x] = @ * 2]
    IN [m2 EXCEPT !.v[x] = Mask8(@)]

\* random_number and byte: Python's short-circuit "and" of two ints
rnd(m, x, byte, random_number) ==
    [m EXCEPT !.v[x] = IF random_number = 0 THEN random_number ELSE byte]

\* ld_kp up to its blocking call: pygame.event.clear(), then pygame.event.wait()
ld_kp(m, x) == [m EXCEPT !.queue = << >>, !.blocked = TRUE, !.bx = x]

\* ld_kp from the event that pygame.event.wait() returned
ld_kp_event(m, x, event) ==
    LET m0 == [m EXCEPT !.blocked = FALSE]
    IN IF event.type = "KEYDOWN"
       THEN LET m1 == set_key(m0, event.key, TRUE)
            IN IF is_pressed_ok(m1, event.key)
               THEN [m1 EXCEPT !.v[x] = IF is_pressed(m1, event.key) THEN 1 ELSE 0]
               ELSE Raise(m1, "IndexError")
       ELSE m0

skp(m, x) ==
    IF ~is_pressed_ok(m, m.v[x]) THEN Raise(m, "IndexError")
    ELSE IF is_pressed(m, m.v[x]) THEN [m EXCEPT !.pc = @ + 2] ELSE m

sknp(m, x) ==
    IF ~is_pressed_ok(m, m.v[x]) THEN Raise(m, "IndexError")
    ELSE IF ~is_pressed(m, m.v[x]) THEN [m EXCEPT !.pc = @ + 2] ELSE m

\* draw's inner loop: the 8 plots of one sprite row; VF is assigned at every plot
RECURSIVE draw_cols(_, _, _, _, _, _)
draw_cols(m, pixels, row, col, x_mem, y_mem) ==
    IF col >= 8 THEN m
    ELSE LET bit == BitAnd(pixels, 128) \div 128
             x_pos == (x_mem + col) % DisplayWidth
             y_pos == (y_mem + row) % DisplayHeight
             index_pos == y_pos * DisplayWidth + x_pos
             old_bit == m.display[index_pos]
             new_bit == BitXor(old_bit, bit)
             m1 == [m EXCEPT !.display[index_pos] = new_bit,
                             !.v[15] = IF old_bit # 0 /\ new_bit = 0 THEN 1 ELSE 0]
         IN draw_cols(m1, pixels * 2, row, col + 1, x_mem, y_mem)

\* draw's outer loop: one byte of RAM per sprite row
RECURSIVE draw_rows(_, _, _, _, _)
draw_rows(m, n, row, x_mem, y_mem) ==
    IF row >= n \/ m.err # "none" THEN m
    ELSE LET m1 == RamTouch(m, m.i + row)
         IN IF m1.err # "none" THEN m1
            ELSE draw_rows(draw_cols(m1, RamGet(m1, m1.i + row), row, 0, x_mem, y_mem),
                           n, row + 1, x_mem, y_mem)

draw(m, x, y, n) == draw_rows(m, n, 0, m.v[x], m.v[y])

\* ------------------------------------------------------------------------
\* chip8.py: fetch, decode, execute; timers; frame presentation
\* ------------------------------------------------------------------------
\* the two bytes get_opcode returns, read at the program counter of m
fetch_msb(m) == RamGet(m, m.pc)

fetch_lsb(m) == RamGet(m, m.pc + 1)

\* (msb << 8) | lsb
opcode_of(msb, lsb) == BitOr(msb * 256, lsb)

get_opcode(m) ==
    LET m1 == RamTouch(m, m.pc)
        m2 == RamTouch(m1, m.pc + 1)
    IN IF m2.err # "none" THEN m2 ELSE [m2 EXCEPT !.pc = @ + 2]

\* tick's match statement: a word that matches no case executes nothing
execute(m, msb, lsb, random_number) ==
    LET opcode == opcode_of(msb, lsb)
        op == BitAnd(opcode, 61440)
        addr == BitAnd(opcode, 4095)
        n == BitAnd(opcode, 15)
        x == BitAnd(msb, 15)
        y == BitAnd(lsb, 240) \div 16
        byte == lsb
    IN CASE op = 0 ->
              (CASE byte = 224 -> cls(m)
                 [] byte = 238 -> ret(m)
                 [] OTHER -> m)
         [] op = 4096 -> jump(m, addr)
         [] op = 8192 -> call(m, addr)
         [] op = 12288 -> se_byte(m, x, byte)
         [] op = 16384 -> sne_byte(m, x, byte)
         [] op = 20480 -> se(m, x, y)
         [] op = 24576 -> ld_byte(m, x, byte)
         [] op = 28672 -> add_byte(m, x, byte)
         [] op = 32768 ->
              (CASE n = 0 -> ld(m, x, y)
                 [] n = 1 -> or_(m, x, y)
                 [] n = 2 -> and_(m, x, y)
                 [] n = 3 -> xor_(m, x, y)
                 [] n = 4 -> add(m, x, y)
                 [] n = 5 -> sub(m, x, y)
                 [] n = 6 -> shr(m, x, y)
                 [] n = 7 -> subn(m, x, y)
                 [] n = 14 -> shl(m, x, y)
                 [] OTHER -> m)
         [] op = 36864 -> sne(m, x, y)
         [] op = 40960 -> ldi(m, addr)
         [] op = 45056 -> branch(m, addr)
         [] op = 49152 -> rnd(m, x, byte, random_number)
         [] op = 53248 -> draw(m, x, y, n)
         [] op = 57344 ->
              (CASE byte = 158 -> skp(m, x)
                 [] byte = 161 -> sknp(m, x)
                 [] OTHER -> m)
         [] op = 61440 ->
              (CASE byte = 7 -> ld_dt(m, x)
                 [] byte = 10 -> ld_kp(m, x)
                 [] byte = 21 -> set_dt(m, x)
                 [] byte = 24 -> set_st(m, x)
                 [] byte = 30 -> addi(m, x)
                 [] byte = 41 -> ld_sprite(m, x)
                 [] byte = 51 -> store_bcd(m, x)
                 [] byte = 85 -> store_v(m, x)
                 [] byte = 101 -> ld_v(m, x)
                 [] OTHER -> m)
         [] OTHER -> m

tick(m, random_number) ==
    LET m1 == get_opcode(m)
    IN IF m1.err # "none" THEN m1
       ELSE execute(m1, fetch_msb(m), fetch_lsb(m), random_number)

\* a plausible slip: the timers are decremented without the test for zero
update_timers_unguarded(m) ==
    [m EXCEPT !.dt = @ - 1, !.st = @ - 1, !.beep = TRUE]

update_timers(m) ==
    LET m1 == IF m.dt > 0 THEN [m EXCEPT !.dt = @ - 1] ELSE m
    IN IF m1.st > 0 THEN [m1 EXCEPT !.beep = TRUE, !.st = @ - 1]
       ELSE IF m1.st = 0 THEN [m1 EXCEPT !.beep = FALSE]
       ELSE m1

\* chip8.draw: every cell of the window shows the colour of its pixel
chip8_draw(m) == [p \in 0..(DisplayWidth * DisplayHeight - 1) |-> m.display[p]]

\* run's event loop over pygame.event.get(): QUIT returns at once
RECURSIVE poll_events(_, _)
poll_events(m, events) ==
    IF events = << >> THEN [m |-> m, returned |-> FALSE]
    ELSE LET event == Head(events)
         IN IF event.type = "QUIT" THEN [m |-> m, returned |-> TRUE]
            ELSE poll_events(
                     IF event.type = "KEYDOWN" THEN set_key(m, event.key, TRUE)
                     ELSE IF event.type = "KEYUP" THEN set_key(m, event.key, FALSE)
                     ELSE m,
                     Tail(events))

\* ------------------------------------------------------------------------
\* Inputs: ROM images and host events
\* ------------------------------------------------------------------------
\* instruction words, by the fields tick decodes: op x y n, op x kk, op nnn
Word(o, x, y, n) == o * 4096 + x * 256 + y * 16 + n

WordK(o, x, kk) == o * 4096 + x * 256 + kk

WordA(o, nnn) == o * 4096 + nnn

\* the bytes of a ROM file holding these words, most significant byte first
RomOf(words) ==
    [b \in 1..(2 * Len(words)) |->
        IF b % 2 = 1 THEN words[(b + 1) \div 2] \div 256 ELSE words[b \div 2] % 256]

\* the address of the w-th word (from 0) of a loaded ROM
At(w) == RomBase + 2 * w

ByteSamples == {0, 1, 5, 10, 129, 255}

RegPairs == {<<1, 2>>, <<15, 1>>, <<1, 15>>, <<2, 2>>}

\* LD Vx,a ; LD Vy,b ; 8xyn ; JUMP self   (n = 8 is no instruction)
ArithRoms ==
    { RomOf(<< WordK(6, p[1], a), WordK(6, p[2], b), Word(8, p[1], p[2], n),
               WordA(1, At(3)) >>) :
        p \in RegPairs, a \in ByteSamples, b \in ByteSamples,
        n \in (0..8) \cup {14} }

\* CALL 0x200 at 0x200: unbounded recursion
RomRecurse == RomOf(<< WordA(2, At(0)) >>)

\* RET as the first instruction
RomRet == RomOf(<< WordA(0, 238) >>)

\* balanced, nested CALL/RET from two call sites
RomCallRet ==
    RomOf(<< WordA(2, At(3)), WordA(2, At(3)), WordA(1, At(2)),
             WordA(2, At(5)), WordA(0, 238), WordA(0, 238) >>)

\* 16 nested CALLs, 17 RETs (the last on an empty stack), then a CALL whose
\* callee nests 16 CALLs more before returning
RomWrap ==
    RomOf(<< WordK(7, 0, 1), WordK(3, 0, 17), WordA(2, At(0)),
             WordK(7, 1, 1), WordK(3, 1, 18), WordA(0, 238),
             WordA(2, At(8)), WordA(1, At(7)),
             WordK(7, 2, 1), WordK(3, 2, 17), WordA(2, At(8)), WordA(0, 238) >>)

StackRoms == {RomRecurse, RomRet, RomCallRet, RomWrap}

\* LDI addr ; LD V0,255 ; LD V1,7 ; w ; JUMP self, for the instructions that use RAM at I
MemRoms ==
    { RomOf(<< WordA(10, addr), WordK(6, 0, 255), WordK(6, 1, 7), w, WordA(1, At(4)) >>) :
        addr \in {768, 4093, 4094, 4095},
        w \in { WordK(15, 1, 51), WordK(15, 1, 85), WordK(15, 1, 101),
                WordK(15, 0, 30), Word(13, 1, 1, 2) } }

\* JUMP 0xFFF, and LD V0,255 ; BRANCH nnn
JumpRoms ==
    { RomOf(<< WordA(1, 4095) >>), RomOf(<< WordA(1, 4094) >>) } \cup
    { RomOf(<< WordK(6, 0, 255), WordA(11, nnn) >>) : nnn \in {At(1) - 255, 3840, 4095} }

\* a word that matches no decode case (or, for 5xy1, only by an ignored nibble),
\* then LD V0,1 ; JUMP self
OddWords == {0, Word(8, 1, 2, 8), WordK(14, 1, 255), WordK(15, 1, 255), Word(5, 1, 2, 1)}

OddRoms == { RomOf(<< w, WordK(6, 0, 1), WordA(1, At(2)) >>) : w \in OddWords }

\* LD V0,px ; LD V1,py ; LDI i1 ; DRAW V0,V1,n ; LDI i2 ; DRAW V0,V1,n ; JUMP self ;
\* and two bytes of sprite data, 0xFF 0x81, at word 7
SpriteAddrs == {0, 5, At(7)}

DrawRoms ==
    { RomOf(<< WordK(6, 0, px), WordK(6, 1, py), WordA(10, i1), Word(13, 0, 1, n),
               WordA(10, i2), Word(13, 0, 1, n), WordA(1, At(6)), 65409 >>) :
        px \in {0, 60}, py \in {0, 30}, i1 \in SpriteAddrs, i2 \in SpriteAddrs,
        n \in {0, 1, 2, 5} }

\* LD Vx,7 ; RND Vx,kk ; JUMP self
RndRoms ==
    { RomOf(<< WordK(6, x, 7), WordK(12, x, kk), WordA(1, At(2)) >>) :
        x \in {1, 15}, kk \in {0, 15, 240, 255} }

\* LD V0,3 ; LD DT,V0 ; LD ST,V0 ; LDI 5 ; DRAW V0,V0,5 ; CALL 0x20C ; LD VF,1 ;
\* LD Vx,a ; ADD Vx,kk ; JUMP self
AddByteRoms ==
    { RomOf(<< WordK(6, 0, 3), WordK(15, 0, 21), WordK(15, 0, 24), WordA(10, 5),
               Word(13, 0, 0, 5), WordA(2, At(6)), WordK(6, 15, 1),
               WordK(6, x, a), WordK(7, x, kk), WordA(1, At(9)) >>) :
        x \in {1, 15}, a \in {0, 200, 255}, kk \in {0, 1, 56, 255} }

\* LD V0,px ; LD V1,py ; LDI i1 ; DRAW V0,V1,5 ; LDI i2 ; DRAW V0,V1,n ;
\* DRAW V0,V1,n ; JUMP self ; and the sprite data 0xFF 0x81 at word 8
DoubleDrawRoms ==
    { RomOf(<< WordK(6, 0, px), WordK(6, 1, py), WordA(10, i1), Word(13, 0, 1, 5),
               WordA(10, i2), Word(13, 0, 1, n), Word(13, 0, 1, n), WordA(1, At(7)),
               65409 >>) :
        px \in {0, 60}, py \in {0, 30}, i1 \in {0, At(8)}, i2 \in {0, 5, At(8)},
        n \in {1, 2, 5, 15} }

\* the largest file RAM has room for above 0x200
RomMax == RamSize - RomBase

\* files of RomMax and RomMax + 1 bytes: JUMP 0x200, then byte b = 7b mod 256
BigRoms ==
    { [b \in 1..len |-> IF b = 1 THEN 18 ELSE IF b = 2 THEN 0 ELSE (7 * b) % 256] :
        len \in {RomMax, RomMax + 1} }

CpuRoms ==
    ArithRoms \cup StackRoms \cup MemRoms \cup JumpRoms \cup OddRoms \cup DrawRoms
    \cup RndRoms \cup AddByteRoms \cup DoubleDrawRoms \cup BigRoms

\* LD V0,a ; LD DT,V0 ; LD V1,b ; LD ST,V1 ; LDI 0x300 ; JUMP 0x208
TimerRoms ==
    { RomOf(<< WordK(6, 0, a), WordK(15, 0, 21), WordK(6, 1, b), WordK(15, 1, 24),
               WordA(10, 768), WordA(1, At(4)) >>) :
        a \in {0, 1, 120}, b \in {0, 1, 3} }

\* LD V0,3 ; LD DT,V0 ; LD ST,V0 ; LD V1,KEY ; LD V2,DT ; JUMP self
RomKey ==
    RomOf(<< WordK(6, 0, 3), WordK(15, 0, 21), WordK(15, 0, 24), WordK(15, 1, 10),
             WordK(15, 2, 7), WordA(1, At(5)) >>)

\* LD V0,1 ; SKP V0 ; JUMP 0x202 ; SKNP V0 ; JUMP self ; CLS ; JUMP 0x202
RomSkp ==
    RomOf(<< WordK(6, 0, 1), WordK(14, 0, 158), WordA(1, At(1)), WordK(14, 0, 161),
             WordA(1, At(4)), WordA(0, 224), WordA(1, At(1)) >>)

RunRoms == {RomKey, RomSkp}

\* host key codes: '1' (logical 1), 'r' (logical 0xD), RETURN (13, unmapped)
HostKeys == {49, 114, 13}

\* pygame events; key is 0 for the events that carry none
Events ==
    { [type |-> "QUIT", key |-> 0], [type |-> "MOUSEMOTION", key |-> 0] } \cup
    { [type |-> t, key |-> c] : t \in {"KEYDOWN", "KEYUP"}, c \in HostKeys }

\* random.randint(0, 255), sampled
RandBytes == {0, 1, 15, 170, 255}

\* ------------------------------------------------------------------------
\* State
\* ------------------------------------------------------------------------
\* The machine (Chip8's fields), the window, pygame's event queue, and where
\* run stands:
\*   loc  "load" before load_rom, "events" at the top of the while loop,
\*        "ticks" in the for loop (k ticks done), "wait" inside ld_kp at
\*        pygame.event.wait(), "timers", "draw", "returned" after QUIT,
\*        "raised" after an uncaught exception, "cpu" when tick is driven
\*        directly on a loaded machine.
\* History variables, for stating the properties:
\*   last    what the last step was: its kind, the word it fetched (-1: none),
\*           the address it was fetched at, the entry of calls a RET took, and
\*           the number random.randint gave to a RND (-1: none), the file a
\*           load read
\*   prev    the registers, the stack and the display before the last step
\*   calls   the CALLs not yet returned from: return address and SP before
\*   nested  the return addresses of the CALLs made since SP was 0, with no
\*           RET since
VARIABLES ram, display, screen, stack, pressed_keys, v, i, pc, sp, dt, st,
          beep, queue, blocked, bx, err, acc, loc, k, last, prev, calls, nested

vars == << ram, display, screen, stack, pressed_keys, v, i, pc, sp, dt, st,
           beep, queue, blocked, bx, err, acc, loc, k, last, prev, calls, nested >>

\* the machine as one value, as the operators above take it
M ==
    [ v |-> v, i |-> i, pc |-> pc, sp |-> sp, dt |-> dt, st |-> st,
      stack |-> stack, ram |-> ram, display |-> display,
      pressed_keys |-> pressed_keys, beep |-> beep, queue |-> queue,
      err |-> err, acc |-> acc, blocked |-> blocked, bx |-> bx ]

SetM(m) ==
    /\ v' = m.v /\ i' = m.i /\ pc' = m.pc /\ sp' = m.sp /\ dt' = m.dt /\ st' = m.st
    /\ stack' = m.stack /\ ram' = m.ram /\ display' = m.display
    /\ pressed_keys' = m.pressed_keys /\ beep' = m.beep /\ queue' = m.queue
    /\ err' = m.err /\ acc' = m.acc /\ blocked' = m.blocked /\ bx' = m.bx

Regs ==
    [ v |-> v, i |-> i, pc |-> pc, sp |-> sp, dt |-> dt, st |-> st, stack |-> stack,
      display |-> display ]

machine == << ram, display, stack, pressed_keys, v, i, pc, sp, dt, st,
              beep, queue, blocked, bx, err, acc >>

NoEntry == [ret |-> -1, sp |-> 0]

NoEvent == [type |-> "none", key |-> 0]

StepOf(kind) ==
    [kind |-> kind, opcode |-> -1, at |-> -1, popped |-> NoEntry, event |-> NoEvent,
     random |-> -1, rom |-> << >>]

IsCall(w) == w >= 0 /\ w \div 4096 = 2

IsRet(w) == w >= 0 /\ w \div 4096 = 0 /\ w % 256 = 238

IsRnd(w) == w >= 0 /\ w \div 4096 = 12

\* the word at the program counter (-1 when the fetch cannot read both bytes)
WordAtPc ==
    IF PyValid(pc, RamSize) /\ PyValid(pc + 1, RamSize)
    THEN opcode_of(RamGet(M, pc), RamGet(M, pc + 1))
    ELSE -1

\* Chip8(), create_window (the window filled with the background colour, 2)
Init ==
    /\ v = Chip8.v /\ i = Chip8.i /\ pc = Chip8.pc /\ sp = Chip8.sp
    /\ dt = Chip8.dt /\ st = Chip8.st
    /\ stack = Chip8.stack /\ ram = Chip8.ram /\ display = Chip8.display
    /\ pressed_keys = Chip8.pressed_keys /\ beep = Chip8.beep /\ queue = Chip8.queue
    /\ err = Chip8.err /\ acc = Chip8.acc /\ blocked = Chip8.blocked /\ bx = Chip8.bx
    /\ screen = [p \in 0..(DisplayWidth * DisplayHeight - 1) |-> 2]
    /\ loc = "load"
    /\ k = 0
    /\ last = StepOf("init")
    /\ prev = Regs
    /\ calls = << >>
    /\ nested = << >>

\* ------------------------------------------------------------------------
\* Actions
\* ------------------------------------------------------------------------
\* chip8_emulator.memory.load_rom(rom_filepath)
LoadInto(rom, next) ==
    /\ loc = "load"
    /\ SetM(load_rom([M EXCEPT !.acc = {}], rom))
    /\ loc' = IF err' # "none" THEN "raised" ELSE next
    /\ last' = [StepOf("load") EXCEPT !.rom = rom]
    /\ prev' = Regs
    /\ UNCHANGED << screen, k, calls, nested >>

LoadRom(rom) == LoadInto(rom, "events")

\* one call of chip8.tick, with the history it leaves
DoTick(random_number) ==
    LET w == WordAtPc
        m == tick([M EXCEPT !.acc = {}], random_number)
        done == m.err = "none"
        top == IF calls # << >> THEN calls[Len(calls)] ELSE NoEntry
    IN /\ SetM(m)
       /\ prev' = Regs
       /\ last' = [kind |-> "tick", opcode |-> w, at |-> pc,
                   popped |-> IF IsRet(w) THEN top ELSE NoEntry, event |-> NoEvent,
                   random |-> IF IsRnd(w) THEN random_number ELSE -1, rom |-> << >>]
       /\ calls' = IF IsCall(w) /\ done THEN Append(calls, [ret |-> pc + 2, sp |-> sp])
                   ELSE IF IsRet(w) /\ calls # << >> THEN SubSeq(calls, 1, Len(calls) - 1)
                   ELSE calls
       /\ nested' = IF IsCall(w) /\ done
                    THEN (IF sp = 0 THEN << pc + 2 >>
                          ELSE IF nested # << >> THEN Append(nested, pc + 2)
                          ELSE << >>)
                    ELSE IF IsRet(w) THEN << >>
                    ELSE nested

RandFor(w) == IF IsRnd(w) THEN RandBytes ELSE {0}

\* a plausible slip: the loop goes from its last tick to the frame, with no
\* timer update
TickThenDraw ==
    /\ loc = "ticks"
    /\ \E r \in RandFor(WordAtPc) : DoTick(r)
    /\ loc' = IF err' # "none" THEN "raised"
              ELSE IF blocked' THEN "wait"
              ELSE IF k + 1 >= TicksPerCycle THEN "draw"
              ELSE "ticks"
    /\ k' = IF err' # "none" \/ blocked' THEN k
            ELSE IF k + 1 >= TicksPerCycle THEN 0
            ELSE k + 1
    /\ UNCHANGED screen

\* for _ in range(5): chip8.tick(chip8_emulator)
Tick ==
    /\ loc = "ticks"
    /\ \E r \in RandFor(WordAtPc) : DoTick(r)
    /\ loc' = IF err' # "none" THEN "raised"
              ELSE IF blocked' THEN "wait"
              ELSE IF k + 1 >= TicksPerCycle THEN "timers"
              ELSE "ticks"
    /\ k' = IF err' # "none" \/ blocked' THEN k
            ELSE IF k + 1 >= TicksPerCycle THEN 0
            ELSE k + 1
    /\ UNCHANGED screen

\* pygame.event.wait() returns inside ld_kp, and the tick it is part of ends
KeyWait ==
    /\ loc = "wait"
    /\ queue # << >>
    /\ SetM(ld_kp_event([M EXCEPT !.queue = Tail(queue)], bx, Head(queue)))
    /\ last' = [last EXCEPT !.kind = "key", !.event = Head(queue)]
    /\ prev' = Regs
    /\ loc' = IF err' # "none" THEN "raised"
              ELSE IF k + 1 >= TicksPerCycle THEN "timers"
              ELSE "ticks"
    /\ k' = IF err' # "none" THEN k
            ELSE IF k + 1 >= TicksPerCycle THEN 0
            ELSE k + 1
    /\ UNCHANGED << screen, calls, nested >>

\* for event in pygame.event.get(): ...
PollEvents ==
    /\ loc = "events"
    /\ LET r == poll_events([M EXCEPT !.queue = << >>, !.acc = {}], queue)
       IN /\ SetM(r.m)
          /\ loc' = IF r.returned THEN "returned" ELSE "ticks"
    /\ k' = 0
    /\ last' = StepOf("events")
    /\ prev' = Regs
    /\ UNCHANGED << screen, calls, nested >>

\* chip8.update_timers(chip8_emulator)
UpdateTimers ==
    /\ loc = "timers"
    /\ SetM(update_timers([M EXCEPT !.acc = {}]))
    /\ loc' = "draw"
    /\ last' = StepOf("timers")
    /\ prev' = Regs
    /\ UNCHANGED << screen, k, calls, nested >>

\* chip8.draw(chip8_emulator); clock.tick(60)
Draw ==
    /\ loc = "draw"
    /\ screen' = chip8_draw(M)
    /\ loc' = "events"
    /\ last' = StepOf("draw")
    /\ prev' = Regs
    /\ UNCHANGED << machine, k, calls, nested >>

\* the host delivers an event to pygame's queue
Post(event) ==
    /\ loc \notin {"returned", "raised"}
    /\ Len(queue) < MaxQueue
    /\ queue' = Append(queue, event)
    /\ UNCHANGED << ram, display, screen, stack, pressed_keys, v, i, pc, sp, dt, st,
                    beep, blocked, bx, err, acc, loc, k, last, prev, calls, nested >>

\* chip8.tick driven directly on a loaded machine (no event, none ever comes)
CpuLoad(rom) == LoadInto(rom, "cpu")

CpuStep ==
    /\ loc = "cpu"
    /\ ~blocked
    /\ \E r \in RandFor(WordAtPc) : DoTick(r)
    /\ loc' = IF err' # "none" THEN "raised" ELSE "cpu"
    /\ UNCHANGED << screen, k >>

\* chip8.update_timers driven directly, at any point between two ticks
CpuTimers ==
    /\ loc = "cpu"
    /\ SetM(update_timers([M EXCEPT !.acc = {}]))
    /\ last' = StepOf("timers")
    /\ prev' = Regs
    /\ UNCHANGED << screen, loc, k, calls, nested >>

\* pygame.event.wait() returns event to the ld_kp of a tick driven directly
CpuKey(event) ==
    /\ loc = "cpu"
    /\ blocked
    /\ SetM(ld_kp_event([M EXCEPT !.acc = {}], bx, event))
    /\ last' = [last EXCEPT !.kind = "key", !.event = event]
    /\ prev' = Regs
    /\ loc' = IF err' # "none" THEN "raised" ELSE "cpu"
    /\ UNCHANGED << screen, k, calls, nested >>

\* ------------------------------------------------------------------------
\* Specifications
\* ------------------------------------------------------------------------
\* pychip8.run
Next ==
    \/ \E rom \in RunRoms : LoadRom(rom)
    \/ PollEvents
    \/ Tick
    \/ KeyWait
    \/ UpdateTimers
    \/ Draw
    \/ \E event \in Events : Post(event)

Spec == Init /\ [][Next]_vars

\* the interpreter alone: load a ROM, then tick after tick
CpuNext ==
    \/ \E rom \in CpuRoms : CpuLoad(rom)
    \/ CpuStep

CpuSpec == Init /\ [][CpuNext]_vars

\* the interpreter and its timers, called in any order on a loaded ROM, a
\* wait for a key being ended by any event
ApiRoms == CpuRoms \cup TimerRoms \cup RunRoms

ApiNext ==
    \/ \E rom \in ApiRoms : CpuLoad(rom)
    \/ CpuStep
    \/ CpuTimers
    \/ \E event \in Events : CpuKey(event)

ApiSpec == Init /\ [][ApiNext]_vars

\* a step of the program itself, as opposed to the host's Post
ProgramStep == PollEvents \/ Tick \/ KeyWait \/ UpdateTimers \/ Draw

\* ------------------------------------------------------------------------
\* Properties
\* ------------------------------------------------------------------------
\* the fields of an instruction word
OpOf(w) == w \div 4096

XOf(w) == (w \div 256) % 16

YOf(w) == (w \div 16) % 16

NOf(w) == w % 16

KKOf(w) == w % 256

\* the last step was a tick that fetched a word of class o
Ticked(o) == last.kind = "tick" /\ last.opcode >= 0 /\ OpOf(last.opcode) = o

\* C1: ADD Vx,Vy (8xy4) sets VF = 1 iff the sum of the registers before the
\* instruction exceeds 255, else VF = 0, and for x # 0xF leaves Vx = sum mod 256.
C1_AddCarry ==
    (Ticked(8) /\ NOf(last.opcode) = 4) =>
        LET x == XOf(last.opcode)
            y == YOf(last.opcode)
            sum == prev.v[x] + prev.v[y]
        IN /\ v[15] = (IF sum > 255 THEN 1 ELSE 0)
           /\ (x # 15 => v[x] = sum % 256)

\* C2: in every reachable state 0 <= SP <= 16.
C2_SpRange == sp >= 0 /\ sp <= StackSize

\* a DRAW of the word at the program counter runs to its end in this step
DrawStep ==
    /\ loc = "cpu" /\ ~blocked
    /\ WordAtPc >= 0 /\ OpOf(WordAtPc) = 13
    /\ err' = "none" /\ pc' = pc + 2

\* some plot of the DRAW at the program counter finds its pixel set and its
\* sprite bit 1 (the 8*n plots go to distinct cells, n being at most 15)
DrawErases ==
    LET w == WordAtPc
        x_mem == v[XOf(w)]
        y_mem == v[YOf(w)]
    IN \E row \in 0..(NOf(w) - 1) : \E col \in 0..7 :
          /\ (ram[i + row] \div (2 ^ (7 - col))) % 2 = 1
          /\ display[((y_mem + row) % DisplayHeight) * DisplayWidth
                     + ((x_mem + col) % DisplayWidth)] = 1

\* C3: after DRAW Vx,Vy,n, VF = 1 if at least one plot of the instruction took
\* a pixel from set to clear, and VF = 0 otherwise.
C3_DrawCollision ==
    [][DrawStep => v'[15] = (IF DrawErases THEN 1 ELSE 0)]_vars

\* C4: every RAM index the interpreter uses is in 0x000..0xFFF.
C4_RamAccessInRange == \A a \in acc : a >= 0 /\ a < RamSize

\* C5: after k nested CALLs from SP = 0 with no RET between, SP = k (k <= 16)
\* and stack slot j holds the return address of the (j+1)-th CALL; a CALL at
\* SP = 16 ends in an error and stores nothing.
C5_NestedCalls ==
    /\ nested # << >> =>
          /\ sp = Len(nested)
          /\ sp <= StackSize
          /\ \A j \in 1..Len(nested) : stack[j - 1] = nested[j]
    /\ (Ticked(2) /\ prev.sp = StackSize) =>
          /\ err # "none"
          /\ loc = "raised"
          /\ sp = StackSize
          /\ stack = prev.stack

\* sixteen CALLs are nested and the seventeenth has been executed
C5_Witness ==
    /\ Len(nested) = StackSize
    /\ Ticked(2) /\ prev.sp = StackSize
    /\ err = "IndexError"

\* C6: a RET at SP = 0 ends in a fatal error: execution halts, PC is not
\* loaded from a stack slot and SP does not go below 0.
C6_RetUnderflow ==
    (last.kind = "tick" /\ IsRet(last.opcode) /\ prev.sp = 0) =>
        /\ err # "none"
        /\ loc = "raised"
        /\ sp = 0
        /\ pc = last.at + 2

\* C7: the RET that returns from a CALL fetched at A (any balanced CALL/RET
\* pairs and other instructions between) leaves PC = A + 2 and SP as it was
\* before that CALL.
C7_CallRetRestoresPc ==
    (last.kind = "tick" /\ IsRet(last.opcode) /\ last.popped # NoEntry /\ err = "none") =>
        /\ pc = last.popped.ret
        /\ sp = last.popped.sp

\* the 35 instructions of the specification's table
Known(w) ==
    LET o == OpOf(w)
    IN \/ w \in {224, 238}
       \/ o \in {1, 2, 3, 4, 6, 7, 10, 11, 12, 13}
       \/ o \in {5, 9} /\ NOf(w) = 0
       \/ o = 8 /\ NOf(w) \in (0..7) \cup {14}
       \/ o = 14 /\ KKOf(w) \in {158, 161}
       \/ o = 15 /\ KKOf(w) \in {7, 10, 21, 24, 30, 41, 51, 85, 101}

\* C8: a fetched word that is none of the 35 instructions ends the step in an
\* error that halts execution; it is not a no-op that only advances PC.
C8_UnknownOpcode ==
    (last.kind = "tick" /\ last.opcode >= 0 /\ ~Known(last.opcode)) =>
        /\ err # "none"
        /\ loc = "raised"

\* C9: LD Vx,KEY is completed only by the press of a logical key, and then
\* Vx is the logical digit of that key.
C9_KeyWait ==
    last.kind = "key" =>
        /\ last.event.type = "KEYDOWN"
        /\ last.event.key \in DOMAIN key_mapper
        /\ err = "none"
        /\ v[bx] = key_mapper[last.event.key]

\* C10: a pending key wait suspends instruction progress only: the driving
\* loop can still take a step of its own (a timer update, a frame, a poll of
\* the events) without waiting for the host to deliver an event.
C10_LoopRunsDuringWait ==
    (loc = "wait" /\ queue = << >>) => ENABLED ProgramStep

\* C11: DT and ST change only through the timer update and LD DT,Vx / LD ST,Vx.
\* Any other step leaves them as they were; a timer update takes exactly 1
\* from a timer that is above 0 and leaves a timer that is 0 at 0, so neither
\* is ever negative.
C11_TimersCadence ==
    /\ dt >= 0 /\ st >= 0
    /\ last.kind = "timers" =>
          /\ dt = (IF prev.dt > 0 THEN prev.dt - 1 ELSE 0)
          /\ st = (IF prev.st > 0 THEN prev.st - 1 ELSE 0)
    /\ last.kind \notin {"timers", "init"} =>
          /\ (~(Ticked(15) /\ KKOf(last.opcode) = 21) => dt = prev.dt)
          /\ (~(Ticked(15) /\ KKOf(last.opcode) = 24) => st = prev.st)

\* DT was loaded with 120 and 60 timer updates, with instructions executed
\* between them, have brought it to 60
C11_Witness ==
    /\ last.kind = "timers" /\ prev.dt = 61 /\ dt = 60
    /\ v[0] = 120 /\ pc = At(5)

\* C12: in every cycle of run the instructions are executed first, then comes
\* the one timer update, then the one frame: a frame is presented only right
\* after a timer update, a timer update is made only right after an
\* instruction, and no instruction is executed after the timer update or the
\* frame of its cycle (the next poll of the events starts the next cycle).
C12_CycleOrder ==
    [][ /\ (Draw => last.kind = "timers")
        /\ (UpdateTimers => last.kind \in {"tick", "key"})
        /\ ((Tick \/ KeyWait) => last.kind \in {"events", "tick", "key"})
        /\ (PollEvents => last.kind \in {"load", "draw"}) ]_vars

\* the second cycle of RomKey has ended: two timer updates, each followed by
\* its frame, the window showing the display
C12_Witness ==
    /\ last.kind = "draw" /\ loc = "events"
    /\ dt = 1 /\ v[2] = 3
    /\ screen[0] = display[0]

\* C13: after every timer update the tone plays if and only if ST, as that
\* update left it, is above 0.
C13_ToneFollowsSt ==
    last.kind = "timers" => (beep <=> st > 0)

\* C14: RND Vx,kk sets Vx to the bitwise AND of the random byte it drew and kk.
C14_RndBitwiseAnd ==
    Ticked(12) => v[XOf(last.opcode)] = BitAnd(last.random, KKOf(last.opcode))

\* C15: for x # 0xF, SUB Vx,Vy (8xy5) sets VF = 1 if Vx > Vy else 0 and
\* Vx = (Vx - Vy) mod 256; SUBN Vx,Vy (8xy7) sets VF = 1 if Vy > Vx else 0 and
\* Vx = (Vy - Vx) mod 256; flag and difference are both those of the register
\* values before the instruction.
C15_SubBorrow ==
    (Ticked(8) /\ NOf(last.opcode) \in {5, 7} /\ XOf(last.opcode) # 15) =>
        LET x == XOf(last.opcode)
            y == YOf(last.opcode)
            a == IF NOf(last.opcode) = 5 THEN prev.v[x] ELSE prev.v[y]
            b == IF NOf(last.opcode) = 5 THEN prev.v[y] ELSE prev.v[x]
        IN /\ v[15] = (IF a > b THEN 1 ELSE 0)
           /\ v[x] = (a - b) % 256

\* C16: ADD Vx,kk (7xkk) sets Vx = (Vx + kk) mod 256 and changes nothing else:
\* every other register, VF included when x # 0xF and also when the sum
\* passes 255, I, SP, DT, ST, the stack, memory and the framebuffer stay as
\* they were, and PC is the fetch's PC + 2.
C16_AddByteFrame ==
    [][ (CpuStep /\ WordAtPc >= 0 /\ OpOf(WordAtPc) = 7) =>
            /\ v' = [v EXCEPT ![XOf(WordAtPc)] = (@ + KKOf(WordAtPc)) % 256]
            /\ pc' = pc + 2
            /\ i' = i /\ sp' = sp /\ dt' = dt /\ st' = st
            /\ stack' = stack /\ ram' = ram /\ display' = display ]_vars

\* ADD V1,56 on V1 = 200 has wrapped to 0 with VF, I, SP, DT and ST all
\* non-zero and pixels set
C16_Witness ==
    /\ Ticked(7) /\ last.opcode = WordK(7, 1, 56)
    /\ prev.v[1] = 200 /\ v[1] = 0
    /\ prev.v[15] = 1 /\ v[15] = 1
    /\ i = 5 /\ sp = 1 /\ dt = 3 /\ st = 3
    /\ display[3 * DisplayWidth + 5] = 1

\* the DRAW at the program counter repeats the DRAW of the last step: the same
\* word, with I, Vx and Vy as they were before that step
DrawRepeats ==
    /\ Ticked(13) /\ WordAtPc = last.opcode
    /\ i = prev.i
    /\ v[XOf(WordAtPc)] = prev.v[XOf(WordAtPc)]
    /\ v[YOf(WordAtPc)] = prev.v[YOf(WordAtPc)]

\* C17: the second of two equal DRAWs in a row (same I, Vx, Vy, n) leaves the
\* framebuffer as it was before the first, and sets VF = 1 if the framebuffer
\* it found had a set pixel under a 1-bit of the sprite.
C17_DoubleDraw ==
    [][ (DrawStep /\ DrawRepeats) =>
            /\ display' = prev.display
            /\ (DrawErases => v'[15] = 1) ]_vars

\* the framebuffer half of C17 alone
C17_DoubleDrawRestores ==
    [][ (DrawStep /\ DrawRepeats) => display' = prev.display ]_vars

\* C18: loading a ROM puts byte i of the file at address 0x200 + i, for every
\* i, and leaves 0x000..0x1FF, the glyph table included, as construction left
\* them; a file of more than 3584 bytes ends the load in an error, and no
\* instruction is executed after it.
C18_LoadRom ==
    last.kind = "load" =>
        /\ \A a \in 0..(RomBase - 1) : ram[a] = InitRam[a]
        /\ Len(last.rom) <= RomMax =>
              /\ err = "none"
              /\ \A n \in 1..Len(last.rom) : ram[RomBase + (n - 1)] = last.rom[n]
        /\ Len(last.rom) > RomMax =>
              /\ err # "none"
              /\ loc = "raised"
              /\ pc = RomBase
              /\ ~ENABLED (CpuStep \/ Tick \/ KeyWait)

\* a file of 3585 bytes has filled RAM to its last cell and raised
C18_Witness ==
    /\ last.kind = "load" /\ Len(last.rom) = RomMax + 1
    /\ err = "IndexError"
    /\ ram[RamSize - 1] = last.rom[RomMax]
    /\ ram[RomBase] = 18

\* C19: in every reachable state V0..VF, DT and ST hold integers in 0..255,
\* and I and PC hold integers in 0..0xFFFF.
C19_RegisterWidths ==
    /\ \A r \in 0..(NumRegs - 1) : v[r] \in 0..255
    /\ dt \in 0..255
    /\ st \in 0..255
    /\ i \in 0..65535
    /\ pc \in 0..65535

\* BRANCH 0xFFF with V0 = 255 has left PC above 0xFFF
C19_Witness ==
    /\ Ticked(11) /\ prev.v[0] = 255
    /\ pc = 4095 + 255

\* what the DRAW at the program counter is to leave in framebuffer cell p: the
\* cell lies (row, col) from (Vx, Vy), wrapping; within the 8 columns of the n
\* rows it takes bit 7 - col of memory[I + row] by XOR, elsewhere it stays
DrawnCell(p) ==
    LET w == WordAtPc
        row == ((p \div DisplayWidth) - v[YOf(w)]) % DisplayHeight
        col == ((p % DisplayWidth) - v[XOf(w)]) % DisplayWidth
    IN IF row < NOf(w) /\ col < 8
       THEN BitXor(display[p], (ram[Mask12(i + row)] \div (2 ^ (7 - col))) % 2)
       ELSE display[p]

\* the effect C20 gives to the DRAW at the program counter
DrawEffect ==
    /\ display' = [p \in 0..(DisplayWidth * DisplayHeight - 1) |-> DrawnCell(p)]
    /\ \A p \in 0..(DisplayWidth * DisplayHeight - 1) : display'[p] \in {0, 1}
    /\ \A r \in 0..(NumRegs - 2) : v'[r] = v[r]
    /\ i' = i /\ ram' = ram
    /\ sp' = sp /\ dt' = dt /\ st' = st /\ stack' = stack

\* C20: DRAW Vx,Vy,n XORs bit 7 - col of memory[I + row] into the framebuffer
\* cell ((Vy + row) mod 32) * 64 + ((Vx + col) mod 64), for every row below n
\* and every col below 8, changes no other cell, leaves I, memory and every
\* register but VF as they were, and leaves every cell 0 or 1.
C20_DrawXor ==
    [][ (CpuStep /\ WordAtPc >= 0 /\ OpOf(WordAtPc) = 13) => DrawEffect ]_vars

\* C20 for the DRAWs that read all their n bytes below the end of memory
C20_DrawXorInRange ==
    [][ DrawStep => DrawEffect ]_vars

\* C21: for x # 0xF, SHR Vx (8xy6) sets VF to bit 0 of the Vx it found and Vx
\* to Vx >> 1, and SHL Vx (8xyE) sets VF to bit 7 of the Vx it found and Vx to
\* (Vx << 1) mod 256; the register file is otherwise as it was, so Vy, where
\* it is a register other than Vx and VF, is not modified and has no part in
\* the result.
C21_Shifts ==
    (Ticked(8) /\ NOf(last.opcode) \in {6, 14} /\ XOf(last.opcode) # 15) =>
        LET x == XOf(last.opcode)
            old == prev.v[x]
        IN v = IF NOf(last.opcode) = 6
               THEN [prev.v EXCEPT ![x] = old \div 2, ![15] = old % 2]
               ELSE [prev.v EXCEPT ![x] = (old * 2) % 256, ![15] = old \div 128]

\* SHL V1 on V1 = 0x81 has left V1 = 0x02 and VF = 1, V2 keeping its 0xFF
C21_Witness ==
    /\ Ticked(8) /\ last.opcode = Word(8, 1, 2, 14)
    /\ prev.v[1] = 129 /\ v[1] = 2 /\ v[15] = 1
    /\ prev.v[2] = 255 /\ v[2] = 255

\* the events this step takes out of pygame's queue (the queue is taken from
\* its head; Post alone adds to it)
Consumed ==
    IF Len(queue') < Len(queue)
    THEN SubSeq(queue, 1, Len(queue) - Len(queue'))
    ELSE << >>

\* the positions of Consumed that hold an event of key code c
KeyEventsOf(c) ==
    { j \in 1..Len(Consumed) :
        Consumed[j].type \in {"KEYDOWN", "KEYUP"} /\ Consumed[j].key = c }

\* C22: no host event leaves the queue unprocessed: a step that takes a QUIT
\* out of the queue makes run return, and a step that takes out KEYDOWNs or
\* KEYUPs of a mapped key leaves that key pressed or not as the last of them
\* says.
C22_NoEventLost ==
    [][ IF \E j \in 1..Len(Consumed) : Consumed[j].type = "QUIT"
        THEN loc' = "returned"
        ELSE \A c \in DOMAIN key_mapper :
                KeyEventsOf(c) # {} =>
                    LET j == CHOOSE n \in KeyEventsOf(c) :
                                 \A o \in KeyEventsOf(c) : o <= n
                    IN pressed_keys'[key_mapper[c]] = (Consumed[j].type = "KEYDOWN") ]_vars

=============================================================================
